---- MODULE Spec2Model ----
(***************************************************************************)
(* Model of app.py, the "Mathematical Calculator" MCP server: module       *)
(* start-up (environment, FastMCP construction, tool registration), and    *)
(* the tool functions calculate, solve_equation, mean, variance,           *)
(* standard_deviation, mode, matrix_addition and matrix_transpose, each    *)
(* with its try / except Exception wrapper.                                *)
(***************************************************************************)
EXTENDS Integers, Sequences, FiniteSets, TLC

VARIABLES
    pc,         \* position of the process: a start-up step, "serving" or "down"
    procEnv,    \* FASTMCP_SERVER_HOST/PORT as the process was started with them
    dotenv,     \* the same two keys as given in a .env file
    environ,    \* os.environ (the two keys)
    bind,       \* host/port the FastMCP instance was constructed with
    registry,   \* names of the tools registered with @app.tool()
    mathAttrs,  \* attributes pi and e of the imported module math
    call,       \* the last tool call: [tool, args]
    outcome     \* how that call ended: a returned payload or a raised exception

vars == <<pc, procEnv, dotenv, environ, bind, registry, mathAttrs, call, outcome>>

Unset == "<unset>"

(***************************************************************************)
(* Python values that calculate's eval can produce.  Floats are symbolic:  *)
(* a sequence of strings naming the term that produced them.               *)
(***************************************************************************)
IntV(n)       == [t |-> "int", i |-> n]
FloatV(term)  == [t |-> "float", f |-> term]
StrV(s)       == [t |-> "str", s |-> s]
NoneV         == [t |-> "None"]
DictV         == [t |-> "dict"]
BuiltinV(fn)  == [t |-> "builtin", fn |-> fn]
ModuleV(m)    == [t |-> "module", m |-> m]
MethodV(m, a) == [t |-> "method", m |-> m, meth |-> a]

IsNumber(v) == v.t \in {"int", "float"}

Repr(v) == IF v.t = "int" THEN <<ToString(v.i)>> ELSE v.f

\* Exceptions: the class, and the arguments str(e) is built from.
Exc(cls, msg) == [cls |-> cls, msg |-> msg]

\* Classes that derive from Exception; the others derive from BaseException only.
ExceptionClasses ==
    {"NameError", "AttributeError", "TypeError", "ValueError",
     "ZeroDivisionError", "SympifyError"}

BaseOnlyClasses == {"BaseException", "SystemExit"}

IsInstanceOfException(exc) == exc.cls \in ExceptionClasses

\* str(e)
StrOfException(exc) == exc.msg

\* What a call leaves behind.
Returned(payload) == [kind |-> "returned", payload |-> payload]
Raised(exc)       == [kind |-> "raised", exc |-> exc]
NoOutcome         == [kind |-> "none"]
NoCall            == [tool |-> "none"]

\* The initial attributes of module math.
InitMathAttrs == [pi |-> FloatV(<<"pi">>), e |-> FloatV(<<"e">>)]

(***************************************************************************)
(* Expressions handed to calculate, as syntax trees.                       *)
(***************************************************************************)
Num(n)          == [k |-> "num", n |-> n]
Str(s)          == [k |-> "str", s |-> s]
Name(id)        == [k |-> "name", id |-> id]
Attr(o, a)      == [k |-> "attr", o |-> o, a |-> a]
BinOp(op, l, r) == [k |-> "binop", op |-> op, l |-> l, r |-> r]
CallE(f, args)  == [k |-> "call", f |-> f, args |-> args]
\* (i for i in ()).throw(C), C an exception class found among
\* ().__class__.__base__.__subclasses__(): attribute access on a literal needs
\* no name, so the empty __builtins__ does not keep any class out of reach.
Throw(cls)      == [k |-> "throw", cls |-> cls]

\* Result of evaluating an expression: a value or an exception, and the
\* attributes of module math afterwards.
Ok(v, st)     == [r |-> "ok", v |-> v, st |-> st]
Fail(exc, st) == [r |-> "exc", exc |-> exc, st |-> st]

\* The functions of module math that the model knows.
MathFunctions == {"sin", "cos", "tan", "exp", "log", "log10", "sqrt", "factorial"}

\* The globals handed to eval: {"__builtins__": {}}.
EvalGlobals == {"__builtins__"}

\* The locals handed to eval, built when calculate is called.
LocalNames ==
    {"math", "np", "sin", "cos", "tan", "exp", "log", "log10", "sqrt", "pi", "e"}

CalculateLocals(st) ==
    [id \in LocalNames |->
        CASE id \in {"math", "np"} -> ModuleV(id)
          [] id \in {"pi", "e"}    -> st[id]
          [] OTHER                 -> BuiltinV(id)]

\* Name resolution of eval: locals, then globals, then the (empty) builtins.
LookupName(id, locals, st) ==
    IF id \in DOMAIN locals THEN Ok(locals[id], st)
    ELSE IF id \in EvalGlobals THEN Ok(DictV, st)
    ELSE Fail(Exc("NameError", <<"name '", id, "' is not defined">>), st)

NoAttribute(v, a, st) ==
    Fail(Exc("AttributeError", <<"'", v.t, "' object has no attribute '", a, "'">>), st)

GetAttr(v, a, st) ==
    CASE v.t = "module" /\ v.m = "math" ->
            IF a \in {"pi", "e"} THEN Ok(st[a], st)
            ELSE IF a \in MathFunctions THEN Ok(BuiltinV(a), st)
            ELSE IF a = "__setattr__" THEN Ok(MethodV("math", a), st)
            ELSE NoAttribute(v, a, st)
      [] v.t = "module" /\ v.m = "np" ->
            IF a \in {"pi", "e"} THEN Ok(FloatV(<<a>>), st)
            ELSE IF a = "__setattr__" THEN Ok(MethodV("np", a), st)
            ELSE NoAttribute(v, a, st)
      [] v.t = "builtin" ->
            IF a = "__self__" THEN Ok(ModuleV("math"), st)
            ELSE NoAttribute(v, a, st)
      [] OTHER -> NoAttribute(v, a, st)

UnsupportedOperands(op, l, r, st) ==
    Fail(Exc("TypeError",
             <<"unsupported operand type(s) for ", op, ": '", l.t, "' and '", r.t, "'">>), st)

BinaryOp(op, l, r, st) ==
    IF ~(IsNumber(l) /\ IsNumber(r)) THEN UnsupportedOperands(op, l, r, st)
    ELSE IF op = "/" THEN
        IF r.t = "int" /\ r.i = 0
        THEN Fail(Exc("ZeroDivisionError", <<"division by zero">>), st)
        ELSE Ok(FloatV(<<"/">> \o Repr(l) \o Repr(r)), st)
    ELSE IF l.t = "int" /\ r.t = "int" THEN
        Ok(IntV(IF op = "+" THEN l.i + r.i ELSE l.i * r.i), st)
    ELSE Ok(FloatV(<<op>> \o Repr(l) \o Repr(r)), st)

RECURSIVE Factorial(_)
Factorial(n) == IF n <= 1 THEN 1 ELSE n * Factorial(n - 1)

MathDomainError(st) == Fail(Exc("ValueError", <<"math domain error">>), st)

CallMath(fn, vs, st) ==
    IF Len(vs) # 1 THEN
        Fail(Exc("TypeError", <<fn, "() takes exactly one argument">>), st)
    ELSE IF ~IsNumber(vs[1]) THEN
        Fail(Exc("TypeError", <<"must be real number, not ", vs[1].t>>), st)
    ELSE IF fn = "factorial" THEN
        IF vs[1].t # "int"
        THEN Fail(Exc("TypeError", <<"'float' object cannot be interpreted as an integer">>), st)
        ELSE IF vs[1].i < 0
        THEN Fail(Exc("ValueError", <<"factorial() not defined for negative values">>), st)
        ELSE Ok(IntV(Factorial(vs[1].i)), st)
    ELSE IF fn = "sqrt" /\ vs[1].t = "int" /\ vs[1].i < 0 THEN MathDomainError(st)
    ELSE IF fn \in {"log", "log10"} /\ vs[1].t = "int" /\ vs[1].i <= 0 THEN MathDomainError(st)
    ELSE Ok(FloatV(<<fn>> \o Repr(vs[1])), st)

\* module.__setattr__(name, value): the module object is shared by every call.
CallSetAttr(m, vs, st) ==
    IF Len(vs) # 2 THEN
        Fail(Exc("TypeError", <<"expected 2 arguments, got ", ToString(Len(vs))>>), st)
    ELSE IF vs[1].t # "str" THEN
        Fail(Exc("TypeError", <<"attribute name must be string, not '", vs[1].t, "'">>), st)
    ELSE IF m = "math" /\ vs[1].s \in DOMAIN st THEN
        Ok(NoneV, [st EXCEPT ![vs[1].s] = vs[2]])
    ELSE Ok(NoneV, st)

Apply(f, vs, st) ==
    CASE f.t = "builtin" -> CallMath(f.fn, vs, st)
      [] f.t = "method"  -> CallSetAttr(f.m, vs, st)
      [] OTHER -> Fail(Exc("TypeError", <<"'", f.t, "' object is not callable">>), st)

RECURSIVE PyEval(_, _, _)
RECURSIVE EvalArgs(_, _, _)

\* The arguments of a call, left to right: [r, vs, st] or a failure.
EvalArgs(args, locals, st) ==
    IF args = <<>> THEN [r |-> "ok", vs |-> <<>>, st |-> st]
    ELSE LET h == PyEval(Head(args), locals, st) IN
         IF h.r = "exc" THEN h
         ELSE LET t == EvalArgs(Tail(args), locals, h.st) IN
              IF t.r = "exc" THEN t
              ELSE [r |-> "ok", vs |-> <<h.v>> \o t.vs, st |-> t.st]

\* eval(expression, {"__builtins__": {}}, locals)
PyEval(ex, locals, st) ==
    CASE ex.k = "num"   -> Ok(IntV(ex.n), st)
      [] ex.k = "str"   -> Ok(StrV(ex.s), st)
      [] ex.k = "name"  -> LookupName(ex.id, locals, st)
      [] ex.k = "attr"  ->
            LET o == PyEval(ex.o, locals, st) IN
            IF o.r = "exc" THEN o ELSE GetAttr(o.v, ex.a, o.st)
      [] ex.k = "binop" ->
            LET l == PyEval(ex.l, locals, st) IN
            IF l.r = "exc" THEN l
            ELSE LET r == PyEval(ex.r, locals, l.st) IN
                 IF r.r = "exc" THEN r ELSE BinaryOp(ex.op, l.v, r.v, r.st)
      [] ex.k = "call"  ->
            LET f == PyEval(ex.f, locals, st) IN
            IF f.r = "exc" THEN f
            ELSE LET a == EvalArgs(ex.args, locals, f.st) IN
                 IF a.r = "exc" THEN a ELSE Apply(f.v, a.vs, a.st)
      [] ex.k = "throw" -> Fail(Exc(ex.cls, <<>>), st)

\* try: return <payload> / except Exception as e: return {"error": str(e)}
TryExcept(r, key) ==
    IF r.r = "ok" THEN Returned(key :> r.v)
    ELSE IF IsInstanceOfException(r.exc)
         THEN Returned("error" :> StrOfException(r.exc))
         ELSE Raised(r.exc)

\* calculate(expression): the outcome, and module math afterwards.
calculate(expression, st) ==
    LET r == PyEval(expression, CalculateLocals(st), st) IN
    [out |-> TryExcept(r, "result"), st |-> r.st]

(***************************************************************************)
(* Module start-up: lines 1-31, the @app.tool() decorators, app.run().     *)
(***************************************************************************)
EnvKeys == {"host", "port"}

Hosts == {"0.0.0.0", "127.0.0.1", "10.0.0.5"}
Ports == {"8000", "9000"}

EnvValues == [host : Hosts \cup {Unset}, port : Ports \cup {Unset}]

\* os.environ["FASTMCP_SERVER_HOST"] = "0.0.0.0"; ...PORT"] = "8000"
AssignedEnviron == [host |-> "0.0.0.0", port |-> "8000"]

\* load_dotenv(): a key of the .env file is set only if os.environ lacks it.
load_dotenv(env, file) ==
    [k \in EnvKeys |-> IF env[k] # Unset THEN env[k] ELSE file[k]]

\* The keyword arguments host= and port= of FastMCP(...).
AppKwargs == [host |-> "0.0.0.0", port |-> "8000"]

\* A setting of FastMCP: the keyword argument when given, else the environment.
FastMCPSettings(kwargs, env) ==
    [k \in EnvKeys |-> IF kwargs[k] # Unset THEN kwargs[k] ELSE env[k]]

ToolNames ==
    {"calculate", "solve_equation", "differentiate", "integrate", "mean",
     "variance", "standard_deviation", "median", "mode",
     "correlation_coefficient", "linear_regression", "confidence_interval",
     "matrix_addition", "matrix_multiplication", "matrix_transpose"}

NoBind == [host |-> Unset, port |-> Unset]

BootInit ==
    /\ pc = "start"
    /\ procEnv \in EnvValues
    /\ dotenv \in EnvValues
    /\ environ = procEnv
    /\ bind = NoBind
    /\ registry = {}
    /\ mathAttrs = InitMathAttrs
    /\ call = NoCall
    /\ outcome = NoOutcome

SetEnviron ==
    /\ pc = "start"
    /\ environ' = AssignedEnviron
    /\ pc' = "load_dotenv"
    /\ UNCHANGED <<procEnv, dotenv, bind, registry, mathAttrs, call, outcome>>

LoadDotenv ==
    /\ pc = "load_dotenv"
    /\ environ' = load_dotenv(environ, dotenv)
    /\ pc' = "create_app"
    /\ UNCHANGED <<procEnv, dotenv, bind, registry, mathAttrs, call, outcome>>

CreateApp ==
    /\ pc = "create_app"
    /\ bind' = FastMCPSettings(AppKwargs, environ)
    /\ pc' = "register"
    /\ UNCHANGED <<procEnv, dotenv, environ, registry, mathAttrs, call, outcome>>

RegisterTools ==
    /\ pc = "register"
    /\ registry' = ToolNames
    /\ pc' = "run"
    /\ UNCHANGED <<procEnv, dotenv, environ, bind, mathAttrs, call, outcome>>

Run ==
    /\ pc = "run"
    /\ pc' = "serving"
    /\ UNCHANGED <<procEnv, dotenv, environ, bind, registry, mathAttrs, call, outcome>>

BootNext == SetEnviron \/ LoadDotenv \/ CreateApp \/ RegisterTools \/ Run

SpecBoot == BootInit /\ [][BootNext]_vars

(***************************************************************************)
(* The serving process.                                                    *)
(***************************************************************************)
\* The state app.run() serves from, started with nothing in the environment.
Started ==
    /\ pc = "serving"
    /\ procEnv = NoBind
    /\ dotenv = NoBind
    /\ environ = load_dotenv(AssignedEnviron, NoBind)
    /\ bind = FastMCPSettings(AppKwargs, environ)
    /\ registry = ToolNames
    /\ mathAttrs = InitMathAttrs

ServingInit ==
    /\ Started
    /\ call = NoCall
    /\ outcome = NoOutcome

\* A request for a tool has arrived and its function has not run yet.
Pending == [kind |-> "pending"]

Request(tool, args) == [tool |-> tool, args |-> args]

\* An exception that leaves a tool function reaches the framework under
\* app.run(), which this file does not contain: the process keeps serving or ends.
AfterCall(out) == IF out.kind = "raised" THEN {"serving", "down"} ELSE {"serving"}

\* Expressions calculate is called with.
OutsideNames == {"undefined_name", "len", "open", "__import__", "os"}

Operands == {Num(0), Num(2), Num(-1), Name("pi"), Name("undefined_name")}

Atoms ==
    {Num(0), Num(2), Num(5)}
        \cup {Name(id) : id \in LocalNames \cup OutsideNames}

BinOps == {BinOp(op, l, r) : op \in {"+", "*", "/"}, l \in Operands, r \in Operands}

Calls ==
    {CallE(Name(f), <<a>>) : f \in {"sin", "sqrt", "log", "pi", "len"}, a \in Operands}

Attrs ==
    {Attr(Name(m), a) :
        m \in {"math", "np", "sin", "pi"}, a \in {"pi", "factorial", "__self__", "nosuch"}}

MathCalls == {CallE(Attr(Name("math"), "factorial"), <<Num(n)>>) : n \in {5, -1}}

SetAttrs ==
    {CallE(Attr(m, "__setattr__"), <<Str(a), v>>) :
        m \in {Name("math"), Name("np"), Attr(Name("sin"), "__self__")},
        a \in {"pi", "e"}, v \in {Num(3), Name("e")}}

Throws == {Throw(c) : c \in {"BaseException", "SystemExit", "ValueError"}}

\* "2 * 3 + 4" and "sin(pi/2)"
DocExamples ==
    {BinOp("+", BinOp("*", Num(2), Num(3)), Num(4)),
     CallE(Name("sin"), <<BinOp("/", Name("pi"), Num(2))>>)}

Expressions ==
    Atoms \cup BinOps \cup Calls \cup Attrs \cup MathCalls \cup SetAttrs
        \cup Throws \cup DocExamples

Calculate ==
    /\ pc = "serving"
    /\ \E ex \in Expressions :
        LET c == calculate(ex, mathAttrs) IN
        /\ call' = Request("calculate", <<ex>>)
        /\ outcome' = c.out
        /\ mathAttrs' = c.st
        /\ pc' \in AfterCall(c.out)
    /\ UNCHANGED <<procEnv, dotenv, environ, bind, registry>>

Next == Calculate

Spec == ServingInit /\ [][Next]_vars

(***************************************************************************)
(* solve_equation.  A string is a sequence of one-character strings.       *)
(***************************************************************************)
MaxEquationLen == 5

Alphabet == {"x", "2", "+", "=", " "}

Digits == {"2"}

\* str.split(sep, 1): split at the first separator only
split_once(s, sep) ==
    IF \A i \in 1..Len(s) : s[i] # sep THEN <<s>>
    ELSE LET i == CHOOSE j \in 1..Len(s) :
                      s[j] = sep /\ \A h \in 1..(j - 1) : s[h] # sep
         IN <<SubSeq(s, 1, i - 1), SubSeq(s, i + 1, Len(s))>>

RECURSIVE split(_, _)
\* str.split(sep) for a one-character separator
split(s, sep) ==
    IF \A i \in 1..Len(s) : s[i] # sep THEN <<s>>
    ELSE LET i == CHOOSE j \in 1..Len(s) :
                      s[j] = sep /\ \A h \in 1..(j - 1) : s[h] # sep
         IN <<SubSeq(s, 1, i - 1)>> \o split(SubSeq(s, i + 1, Len(s)), sep)

RECURSIVE lstrip(_)
lstrip(s) == IF s # <<>> /\ Head(s) = " " THEN lstrip(Tail(s)) ELSE s

RECURSIVE rstrip(_)
rstrip(s) ==
    IF s # <<>> /\ s[Len(s)] = " " THEN rstrip(SubSeq(s, 1, Len(s) - 1)) ELSE s

\* str.strip()
strip(s) == rstrip(lstrip(s))

\* Tokens of an expression: the symbol x, a number, the operator +, or "bad"
\* where the tokenizer stops (a digit run that runs into a letter, as in 2x).
RECURSIVE Tokenize(_)
RECURSIVE NumberToken(_, _)

NumberToken(s, n) ==
    IF s # <<>> /\ Head(s) \in Digits THEN NumberToken(Tail(s), 10 * n + 2)
    ELSE IF s # <<>> /\ Head(s) = "x" THEN <<[k |-> "bad"]>>
    ELSE <<[k |-> "number", n |-> n]>> \o Tokenize(s)

Tokenize(s) ==
    IF s = <<>> THEN <<>>
    ELSE IF Head(s) = " " THEN Tokenize(Tail(s))
    ELSE IF Head(s) = "x" THEN <<[k |-> "symbol"]>> \o Tokenize(Tail(s))
    ELSE IF Head(s) = "+" THEN <<[k |-> "plus"]>> \o Tokenize(Tail(s))
    ELSE IF Head(s) \in Digits THEN NumberToken(s, 0)
    ELSE <<[k |-> "bad"]>>

IsAtom(tok) == tok.k \in {"symbol", "number"}

\* A sum of atoms, each under any number of unary + signs.
WellFormed(toks) ==
    /\ toks # <<>>
    /\ \A i \in 1..Len(toks) : toks[i].k # "bad"
    /\ IsAtom(toks[Len(toks)])
    /\ \A i \in 1..(Len(toks) - 1) : ~(IsAtom(toks[i]) /\ IsAtom(toks[i + 1]))

RECURSIVE SumAtoms(_)
\* The expression a*x + b as [a, b]
SumAtoms(toks) ==
    IF toks = <<>> THEN [a |-> 0, b |-> 0]
    ELSE LET rest == SumAtoms(Tail(toks)) IN
         CASE Head(toks).k = "symbol" -> [rest EXCEPT !.a = @ + 1]
           [] Head(toks).k = "number" -> [rest EXCEPT !.b = @ + Head(toks).n]
           [] OTHER -> rest

\* sympify(text): the expression, or SympifyError
sympify(text) ==
    IF WellFormed(Tokenize(text)) THEN [r |-> "ok", v |-> SumAtoms(Tokenize(text))]
    ELSE [r |-> "exc",
          exc |-> Exc("SympifyError",
                      <<"Sympify of expression 'could not parse '">> \o text \o <<"' failed">>)]

Abs(n) == IF n < 0 THEN -n ELSE n

RECURSIVE Gcd(_, _)
Gcd(m, n) == IF n = 0 THEN m ELSE Gcd(n, m % n)

\* The rational n/d in lowest terms with a positive denominator.
Rational(n, d) ==
    LET g == Gcd(Abs(n), Abs(d))
        sgn == IF d < 0 THEN -1 ELSE 1
    IN [num |-> sgn * (n \div g), den |-> sgn * (d \div g)]

\* solve(left - right, x) for the linear expression a*x + b
solve(left, right) ==
    LET a == left.a - right.a
        b == left.b - right.b
    IN IF a = 0 THEN <<>> ELSE <<Rational(-b, a)>>

StrOfRational(q) ==
    IF q.den = 1 THEN <<ToString(q.num)>>
    ELSE <<ToString(q.num), "/", ToString(q.den)>>

\* str(solutions): the list of at most one solution
StrOfSolutions(sols) ==
    IF sols = <<>> THEN <<"[", "]">>
    ELSE <<"[">> \o StrOfRational(sols[1]) \o <<"]">>

MissingEquals == <<"Equation must contain an '=' sign">>

solve_equation(equation) ==
    LET parts == split(equation, "=") IN
    IF Len(parts) # 2 THEN Returned("error" :> MissingEquals)
    ELSE LET left == sympify(strip(parts[1])) IN
         IF left.r = "exc" THEN TryExcept(left, "solutions")
         ELSE LET right == sympify(strip(parts[2])) IN
              IF right.r = "exc" THEN TryExcept(right, "solutions")
              ELSE TryExcept([r |-> "ok", v |-> StrOfSolutions(solve(left.v, right.v))],
                             "solutions")

RECURSIVE Strings(_)
Strings(n) ==
    IF n = 0 THEN {<<>>}
    ELSE LET shorter == Strings(n - 1) IN
         shorter \cup {Append(s, c) : s \in {t \in shorter : Len(t) = n - 1}, c \in Alphabet}

\* The equations use the one variable x: no other identifier (xx, x2) occurs.
Equations ==
    {s \in Strings(MaxEquationLen) :
        \A i \in 1..(Len(s) - 1) : ~(s[i] = "x" /\ s[i + 1] \in {"x"} \cup Digits)}

SolveInit ==
    /\ Started
    /\ call \in {Request("solve_equation", <<eq>>) : eq \in Equations}
    /\ outcome = Pending

\* One tool function runs on the pending request.
Serve(tool, out) ==
    /\ pc = "serving"
    /\ call.tool = tool
    /\ outcome = Pending
    /\ outcome' = out
    /\ pc' \in AfterCall(out)
    /\ UNCHANGED <<procEnv, dotenv, environ, bind, registry, mathAttrs, call>>

SolveEquation == Serve("solve_equation", solve_equation(call.args[1]))

SpecSolve == SolveInit /\ [][SolveEquation]_vars

(***************************************************************************)
(* Statistics tools.  A float is an exact rational, nan, or the square     *)
(* root of a rational.                                                     *)
(***************************************************************************)
MaxDataLen == 4
MaxValue == 4

NaN == [nan |-> TRUE]

SqrtOf(q) == IF "nan" \in DOMAIN q THEN NaN ELSE [sqrt |-> q]

\* float(v) of an integer
Float(v) == Rational(v, 1)

RECURSIVE Sum(_)
Sum(data) == IF data = <<>> THEN 0 ELSE Head(data) + Sum(Tail(data))

\* np.mean(data): nan (and a warning, no exception) for an empty list
np_mean(data) ==
    IF data = <<>> THEN NaN ELSE Rational(Sum(data), Len(data))

\* np.var(data, ddof): mean of |x - mean|^2 with divisor n - ddof
var(data, ddof) ==
    LET n == Len(data)
        dev == [i \in 1..n |-> (n * data[i] - Sum(data)) * (n * data[i] - Sum(data))]
    IN IF n - ddof <= 0 THEN NaN ELSE Rational(Sum(dev), n * n * (n - ddof))

np_var_sample(data) == var(data, 1)

\* np.var(data): ddof defaults to 0
np_var(data) == var(data, 0)

\* np.std(data): sqrt(np.var(data))
np_std(data) == SqrtOf(np_var(data))

Count(data, v) == Cardinality({i \in 1..Len(data) : data[i] = v})

\* Last index of the largest count
ArgMaxLast(counts) ==
    CHOOSE i \in 1..Len(counts) :
        /\ \A j \in 1..Len(counts) : counts[j] <= counts[i]
        /\ \A j \in (i + 1)..Len(counts) : counts[j] < counts[i]

\* First index of the largest count: numpy's argmax
ArgMax(counts) ==
    CHOOSE i \in 1..Len(counts) :
        /\ \A j \in 1..Len(counts) : counts[j] <= counts[i]
        /\ \A j \in 1..(i - 1) : counts[j] < counts[i]

RECURSIVE SortedSeq(_)
\* The elements of a set of integers in ascending order
SortedSeq(S) ==
    IF S = {} THEN <<>>
    ELSE LET m == CHOOSE x \in S : \A y \in S : x <= y
         IN <<m>> \o SortedSeq(S \ {m})

\* stats.mode(data, keepdims=False).mode: np.unique(data, return_counts=True),
\* then the unique value at the argmax of the counts
stats_mode(data) ==
    LET vals == SortedSeq({data[i] : i \in 1..Len(data)})
        cnts == [i \in 1..Len(vals) |-> Count(data, vals[i])]
    IN vals[ArgMax(cnts)]

EmptyMode == <<"Cannot compute mode of empty array">>

mean(data) == TryExcept([r |-> "ok", v |-> np_mean(data)], "result")

variance(data) == TryExcept([r |-> "ok", v |-> np_var(data)], "result")

standard_deviation(data) == TryExcept([r |-> "ok", v |-> np_std(data)], "result")

mode(data) ==
    IF data = <<>> THEN Returned("error" :> EmptyMode)
    ELSE TryExcept([r |-> "ok", v |-> Float(stats_mode(data))], "result")

RECURSIVE Lists(_, _)
\* The lists of at most n elements of S
Lists(n, S) ==
    IF n = 0 THEN {<<>>}
    ELSE LET shorter == Lists(n - 1, S) IN
         shorter \cup {Append(l, v) : l \in {t \in shorter : Len(t) = n - 1}, v \in S}

DataLists == Lists(MaxDataLen, 0..MaxValue)

StatsTools == {"mean", "variance", "standard_deviation", "mode"}

StatsInit ==
    /\ Started
    /\ call \in {Request(tool, <<data>>) : tool \in StatsTools, data \in DataLists}
    /\ outcome = Pending

Mean == Serve("mean", mean(call.args[1]))

Variance == Serve("variance", variance(call.args[1]))

StandardDeviation == Serve("standard_deviation", standard_deviation(call.args[1]))

Mode == Serve("mode", mode(call.args[1]))

StatsNext == Mean \/ Variance \/ StandardDeviation \/ Mode

SpecStats == StatsInit /\ [][StatsNext]_vars

(***************************************************************************)
(* Matrix tools.  An ndarray is its shape and, for two dimensions, its     *)
(* elements by index pair.                                                 *)
(***************************************************************************)
MaxDim == 2

Entries == {1, 2, 3}

\* np.array(matrix) of a rectangular nested list: [] is one-dimensional, of shape (0,)
np_array(matrix) ==
    IF matrix = <<>> THEN [shape |-> <<0>>, at |-> <<>>]
    ELSE LET r == Len(matrix)
             c == Len(matrix[1])
         IN [shape |-> <<r, c>>,
             at |-> [ij \in (1..r) \X (1..c) |-> matrix[ij[1]][ij[2]]]]

\* ndarray.tolist()
tolist(arr) ==
    IF Len(arr.shape) = 1 THEN <<>>
    ELSE [i \in 1..arr.shape[1] |-> [j \in 1..arr.shape[2] |-> arr.at[<<i, j>>]]]

\* np.rot90: the array turned a quarter
rot90(arr) ==
    IF Len(arr.shape) = 1 THEN arr
    ELSE LET r == arr.shape[1]
             c == arr.shape[2]
         IN [shape |-> <<c, r>>,
             at |-> [ij \in (1..c) \X (1..r) |-> arr.at[<<ij[2], c + 1 - ij[1]>>]]]

\* np.transpose of an array: the axes reversed
transpose(arr) ==
    IF Len(arr.shape) = 1 THEN arr
    ELSE LET r == arr.shape[1]
             c == arr.shape[2]
         IN [shape |-> <<c, r>>,
             at |-> [ij \in (1..c) \X (1..r) |-> arr.at[<<ij[2], ij[1]>>]]]

matrix_transpose(matrix) ==
    TryExcept([r |-> "ok", v |-> tolist(transpose(np_array(matrix)))], "result")

\* Broadcasting of two shapes, aligned at the last axis: each pair of sizes must
\* be equal or hold a 1.
Padded(shape, n) == [i \in 1..(n - Len(shape)) |-> 1] \o shape

Max(a, b) == IF a >= b THEN a ELSE b

Broadcastable(sa, sb) ==
    LET n == Max(Len(sa), Len(sb)) IN
    \A i \in 1..n :
        \/ Padded(sa, n)[i] = Padded(sb, n)[i]
        \/ Padded(sa, n)[i] = 1
        \/ Padded(sb, n)[i] = 1

BroadcastShape(sa, sb) ==
    LET n == Max(Len(sa), Len(sb)) IN
    [i \in 1..n |-> IF Padded(sa, n)[i] = 1 THEN Padded(sb, n)[i] ELSE Padded(sa, n)[i]]

\* The element of arr that index ij of the broadcast array reads
BroadcastAt(arr, ij) ==
    arr.at[<<IF arr.shape[1] = 1 THEN 1 ELSE ij[1], IF arr.shape[2] = 1 THEN 1 ELSE ij[2]>>]

StrOfShape(shape) == <<"(">> \o [i \in 1..Len(shape) |-> ToString(shape[i])] \o <<")">>

\* np.add(a, b)
np_add(a, b) ==
    IF ~Broadcastable(a.shape, b.shape) THEN
        [r |-> "exc",
         exc |-> Exc("ValueError",
                     <<"operands could not be broadcast together with shapes ">>
                         \o StrOfShape(a.shape) \o StrOfShape(b.shape))]
    ELSE LET shape == BroadcastShape(a.shape, b.shape) IN
         [r |-> "ok",
          v |-> IF Len(a.shape) = 1 \/ Len(b.shape) = 1
                THEN [shape |-> shape, at |-> <<>>]
                ELSE [shape |-> shape,
                      at |-> [ij \in (1..shape[1]) \X (1..shape[2]) |->
                                 BroadcastAt(a, ij) + BroadcastAt(b, ij)]]]

matrix_addition(matrix_a, matrix_b) ==
    LET sum == np_add(np_array(matrix_a), np_array(matrix_b)) IN
    IF sum.r = "exc" THEN TryExcept(sum, "result")
    ELSE TryExcept([r |-> "ok", v |-> tolist(sum.v)], "result")

\* The rectangular matrices of at most MaxDim rows and columns
Matrices ==
    UNION {[1..r -> [1..c -> Entries]] : r \in 0..MaxDim, c \in 0..MaxDim}

TransposeInit ==
    /\ Started
    /\ call \in {Request("matrix_transpose", <<m>>) : m \in Matrices}
    /\ outcome = Pending

MatrixTranspose == Serve("matrix_transpose", matrix_transpose(call.args[1]))

SpecTranspose == TransposeInit /\ [][MatrixTranspose]_vars

\* The matrices that hold at least one entry
ProperMatrices == {m \in Matrices : m # <<>> /\ m[1] # <<>>}

AdditionInit ==
    /\ Started
    /\ call \in {Request("matrix_addition", <<a, b>>) :
                    a \in ProperMatrices, b \in ProperMatrices}
    /\ outcome = Pending

MatrixAddition ==
    Serve("matrix_addition", matrix_addition(call.args[1], call.args[2]))

SpecAddition == AdditionInit /\ [][MatrixAddition]_vars

(***************************************************************************)
(* Properties.                                                             *)
(***************************************************************************)
Finished == outcome.kind \in {"returned", "raised"}

IsErrorPayload(p) == DOMAIN p = {"error"}

IsSuccessPayload(p) == DOMAIN p # {} /\ "error" \notin DOMAIN p

\* C1: no call lets an exception leave the tool function: every call that has
\* ended returned a success mapping (result keys, no "error") or a mapping whose
\* only key is "error".
C1_NoExceptionLeavesTool ==
    Finished =>
        /\ outcome.kind = "returned"
        /\ IsErrorPayload(outcome.payload) \/ IsSuccessPayload(outcome.payload)

\* Number of occurrences of a character in a string
Occurrences(s, c) == Cardinality({i \in 1..Len(s) : s[i] = c})

Before(s, c) == SubSeq(s, 1, (CHOOSE i \in 1..Len(s) : s[i] = c) - 1)

After(s, c) == SubSeq(s, (CHOOSE i \in 1..Len(s) : s[i] = c) + 1, Len(s))

\* C2 as stated: an equation without exactly one "=" gives the missing-"=" error,
\* and every equation with exactly one "=" gives a payload under "solutions".
C2_OneEqualsAlwaysSolves ==
    (call.tool = "solve_equation" /\ Finished) =>
        /\ outcome.kind = "returned"
        /\ IF Occurrences(call.args[1], "=") # 1
           THEN IsErrorPayload(outcome.payload) /\ outcome.payload.error = MissingEquals
           ELSE DOMAIN outcome.payload = {"solutions"}

\* C2 amended: an equation without exactly one "=" gives the missing-"=" error;
\* with exactly one "=", when both stripped sides parse the payload holds under
\* "solutions" the string form of the solutions of left - right = 0 (each of
\* which satisfies left = right), and when a side does not parse the payload is
\* {"error": str(e)} of the parse error of the first such side.
C2_OneEqualsSolvesWhenParsed ==
    (call.tool = "solve_equation" /\ Finished) =>
        LET eq == call.args[1] IN
        /\ outcome.kind = "returned"
        /\ IF Occurrences(eq, "=") # 1
           THEN IsErrorPayload(outcome.payload) /\ outcome.payload.error = MissingEquals
           ELSE LET l == sympify(strip(Before(eq, "=")))
                    r == sympify(strip(After(eq, "=")))
                IN IF l.r = "ok" /\ r.r = "ok"
                   THEN LET sols == solve(l.v, r.v) IN
                        /\ DOMAIN outcome.payload = {"solutions"}
                        /\ outcome.payload.solutions = StrOfSolutions(sols)
                        /\ \A i \in 1..Len(sols) :
                              l.v.a * sols[i].num + l.v.b * sols[i].den
                                  = r.v.a * sols[i].num + r.v.b * sols[i].den
                        /\ (sols = <<>>) <=> (l.v.a = r.v.a)
                   ELSE /\ IsErrorPayload(outcome.payload)
                        /\ outcome.payload.error
                               = StrOfException((IF l.r = "exc" THEN l ELSE r).exc)

\* solve_equation("x+x=2") returned {"solutions": "[1]"}
C2_Witness ==
    /\ call = Request("solve_equation", << <<"x", "+", "x", "=", "2">> >>)
    /\ outcome.kind = "returned"
    /\ DOMAIN outcome.payload = {"solutions"}
    /\ outcome.payload.solutions = <<"[", "1", "]">>

RECURSIVE NamesOf(_)
\* The names an expression refers to
NamesOf(ex) ==
    CASE ex.k = "name"  -> {ex.id}
      [] ex.k = "attr"  -> NamesOf(ex.o)
      [] ex.k = "binop" -> NamesOf(ex.l) \cup NamesOf(ex.r)
      [] ex.k = "call"  ->
            NamesOf(ex.f) \cup UNION {NamesOf(ex.args[i]) : i \in 1..Len(ex.args)}
      [] OTHER -> {}

DocumentedNames == {"sin", "cos", "tan", "exp", "log", "log10", "sqrt", "pi", "e"}

\* C3: calculate resolves only sin, cos, tan, exp, log, log10, sqrt, pi and e:
\* an expression that refers to any other name never yields a result.
C3_OnlyDocumentedNamesResolve ==
    (call.tool = "calculate" /\ outcome.kind = "returned"
        /\ "result" \in DOMAIN outcome.payload)
    => NamesOf(call.args[1]) \subseteq DocumentedNames

\* v occurs most often in data and is the smallest value that does
SmallestMostFrequent(data, v) ==
    /\ \E i \in 1..Len(data) : data[i] = v
    /\ \A i \in 1..Len(data) :
          \/ Count(data, data[i]) < Count(data, v)
          \/ Count(data, data[i]) = Count(data, v) /\ v <= data[i]

\* C4: mode answers the empty list, and only it, with the empty-array error; a
\* non-empty list gives {"result": v}, v the smallest of the most frequent values.
C4_ModeSmallestMostFrequent ==
    (call.tool = "mode" /\ Finished) =>
        /\ outcome.kind = "returned"
        /\ IF call.args[1] = <<>>
           THEN IsErrorPayload(outcome.payload) /\ outcome.payload.error = EmptyMode
           ELSE /\ DOMAIN outcome.payload = {"result"}
                /\ \E v \in 0..MaxValue :
                      /\ outcome.payload.result = Float(v)
                      /\ SmallestMostFrequent(call.args[1], v)

\* mode([1,1,2,2]) returned 1.0
C4_Witness ==
    /\ call = Request("mode", <<<<1, 1, 2, 2>>>>)
    /\ outcome.kind = "returned"
    /\ DOMAIN outcome.payload = {"result"}
    /\ outcome.payload.result = Float(1)

Rows(m) == Len(m)

Cols(m) == IF m = <<>> THEN 0 ELSE Len(m[1])

\* C5 as stated: transposing the result of matrix_transpose(M) gives M back, for
\* every rectangular M, rows of length zero included.
C5_TransposeInvolutionAll ==
    (call.tool = "matrix_transpose" /\ Finished) =>
        /\ outcome.kind = "returned"
        /\ DOMAIN outcome.payload = {"result"}
        /\ matrix_transpose(outcome.payload.result) = Returned("result" :> call.args[1])

\* C5 amended: transposing the result of matrix_transpose(M) gives M back for
\* every rectangular M with at least one row and one column, and for M = [].
C5_TransposeInvolution ==
    (call.tool = "matrix_transpose" /\ Finished
        /\ (call.args[1] = <<>> \/ Cols(call.args[1]) >= 1)) =>
        /\ outcome.kind = "returned"
        /\ DOMAIN outcome.payload = {"result"}
        /\ matrix_transpose(outcome.payload.result) = Returned("result" :> call.args[1])

\* matrix_transpose([[1,2]]) returned [[1],[2]]
C5_Witness ==
    /\ call = Request("matrix_transpose", << <<<<1, 2>>>> >>)
    /\ outcome.kind = "returned"
    /\ outcome.payload.result = <<<<1>>, <<2>>>>

\* C6: matrix_addition gives the elementwise sum for two matrices of one shape,
\* and an error payload whenever the numbers of rows or of columns differ.
C6_ShapeMismatchIsError ==
    (call.tool = "matrix_addition" /\ Finished) =>
        LET a == call.args[1]
            b == call.args[2]
        IN /\ outcome.kind = "returned"
           /\ IF Rows(a) = Rows(b) /\ Cols(a) = Cols(b)
              THEN /\ DOMAIN outcome.payload = {"result"}
                   /\ outcome.payload.result
                          = [i \in 1..Rows(a) |-> [j \in 1..Cols(a) |-> a[i][j] + b[i][j]]]
              ELSE IsErrorPayload(outcome.payload)

Failed(out) ==
    \/ out.kind = "raised"
    \/ out.kind = "returned" /\ "error" \in DOMAIN out.payload

C8_PayloadIndependentOfHistory ==
    (call.tool = "calculate" /\ Finished) =>
        /\ outcome = calculate(call.args[1], InitMathAttrs).out
        /\ registry = ToolNames

DefaultBind == [host |-> "0.0.0.0", port |-> "8000"]

\* The value the process environment, else the .env file, else the default gives
Configured(k) ==
    IF procEnv[k] # Unset THEN procEnv[k]
    ELSE IF dotenv[k] # Unset THEN dotenv[k]
    ELSE DefaultBind[k]

\* C9: the server binds to the host and port set in the environment (or .env)
\* before start, and to 0.0.0.0:8000 only when they are not set.
C9_BindsToEnvironment ==
    pc = "serving" => \A k \in EnvKeys : bind[k] = Configured(k)

IsRational(v) == DOMAIN v = {"num", "den"}

SumOfSquares(data) == Sum([i \in 1..Len(data) |-> data[i] * data[i]])

\* q = (n * sum(x^2) - sum(x)^2) / n^2, the population variance of data
IsPopulationVariance(q, data) ==
    /\ IsRational(q)
    /\ q.num * Len(data) * Len(data)
           = q.den * (Len(data) * SumOfSquares(data) - Sum(data) * Sum(data))

\* C10: on a non-empty list mean is sum/n, variance the population variance
\* (divisor n, so 1.25 for [1,2,3,4]) and standard_deviation its square root.
C10_PopulationConvention ==
    (call.tool \in {"mean", "variance", "standard_deviation"} /\ Finished
        /\ call.args[1] # <<>>) =>
        LET data == call.args[1] IN
        /\ outcome.kind = "returned"
        /\ DOMAIN outcome.payload = {"result"}
        /\ call.tool = "mean" =>
              /\ IsRational(outcome.payload.result)
              /\ outcome.payload.result.num * Len(data)
                     = outcome.payload.result.den * Sum(data)
              /\ data = <<1, 2, 3, 4>> => outcome.payload.result = Rational(5, 2)
        /\ call.tool = "variance" =>
              /\ IsPopulationVariance(outcome.payload.result, data)
              /\ data = <<1, 2, 3, 4>> => outcome.payload.result = Rational(5, 4)
        /\ call.tool = "standard_deviation" =>
              /\ DOMAIN outcome.payload.result = {"sqrt"}
              /\ IsPopulationVariance(outcome.payload.result.sqrt, data)

\* variance([1,2,3,4]) returned 1.25
C10_Witness ==
    /\ call = Request("variance", <<<<1, 2, 3, 4>>>>)
    /\ outcome.kind = "returned"
    /\ outcome.payload.result = Rational(5, 4)

====
